---- MODULE Spec2Model ----
(***************************************************************************)
(* The grapheme-to-phoneme rule engine of nemo_text_processing/g2p:        *)
(* EnglishG2p and IPAG2P (modules.py).  A string is a sequence of          *)
(* one-character strings; a pronunciation is a sequence of phoneme         *)
(* symbols; the output of __call__ is a sequence of tokens (strings).      *)
(***************************************************************************)
EXTENDS Naturals, Sequences, FiniteSets, TLC

VARIABLES
    g,         \* the G2P object: its class and the fields __init__ sets
    err,       \* how construction ended: "ok" or the exception raised
    args,      \* the arguments the object was constructed with
    replaced,  \* whether replace_dict has been called on the object
    last       \* the last operation applied, its inputs and its results

vars == <<g, err, args, replaced, last>>

-----------------------------------------------------------------------------
(* Python values *)

\* Optional values: None is the empty sequence, a present value x is <<x>>.
NoneVal == <<>>
Some(x) == <<x>>

\* The two lexical stress markers of IPAG2P.STRESS_SYMBOLS, U+02C8 and U+02CC,
\* written in ASCII.
STRESS_SYMBOLS == {"STRESS1", "STRESS2"}

GRAPHEME_CASE_UPPER == "upper"
GRAPHEME_CASE_LOWER == "lower"
GRAPHEME_CASE_MIXED == "mixed"

LowerLetters == {"a", "t", "s"}
UpperLetters == {"A", "T", "S"}
Letters == LowerLetters \cup UpperLetters

\* str.upper() and str.lower() on one character.
UpperChar(c) ==
    CASE c = "a" -> "A" [] c = "t" -> "T" [] c = "s" -> "S" [] OTHER -> c
LowerChar(c) ==
    CASE c = "A" -> "a" [] c = "T" -> "t" [] c = "S" -> "s" [] OTHER -> c

Upper(word) == [i \in 1..Len(word) |-> UpperChar(word[i])]
Lower(word) == [i \in 1..Len(word) |-> LowerChar(word[i])]

\* str.isupper(): at least one cased character and no lowercase one.
IsUpper(word) ==
    /\ \E i \in 1..Len(word) : word[i] \in UpperLetters
    /\ \A i \in 1..Len(word) : word[i] \notin LowerLetters

\* re.search(r"[a-zA-Z...\d]", word) / CHAR_REGEX.search(word): the word
\* holds a letter (or digit).
HasWordChar(word) == \E i \in 1..Len(word) : word[i] \in Letters

\* str.endswith(suffix)
EndsWith(word, suffix) ==
    /\ Len(word) >= Len(suffix)
    /\ SubSeq(word, Len(word) - Len(suffix) + 1, Len(word)) = suffix

\* word[:-n]
DropLast(word, n) == SubSeq(word, 1, Len(word) - n)

\* str.split("-")
RECURSIVE SplitFrom(_, _)
SplitFrom(word, cur) ==
    IF word = <<>> THEN <<cur>>
    ELSE IF Head(word) = "-" THEN <<cur>> \o SplitFrom(Tail(word), <<>>)
    ELSE SplitFrom(Tail(word), Append(cur, Head(word)))
SplitHyphen(word) == SplitFrom(word, <<>>)

\* A dict as a function; d[k] = v of a dict.
EmptyDict == <<>>
DictPut(d, k, v) ==
    [w \in (DOMAIN d) \cup {k} |-> IF w = k THEN v ELSE d[w]]

\* set_grapheme_case(text, case) of g2p/data/data_utils.py.
SetGraphemeCase(text, case) ==
    CASE case = GRAPHEME_CASE_UPPER -> Upper(text)
      [] case = GRAPHEME_CASE_LOWER -> Lower(text)
      [] OTHER -> text

\* normalize_unicode_text (NFC) of g2p/data/data_utils.py; every character of
\* the alphabet used here is ASCII, which NFC leaves as it is.
NormalizeUnicodeText(text) == text

\* apply_to_oov_word when it is given: a function of the word alone, whose
\* result is marked so that it is neither the graphemes nor a pronunciation.
OovFn(word) == <<"<oov>">> \o word

-----------------------------------------------------------------------------
(* The random draw *)

\* random.Random().random() draws r in [0, 1); a draw d stands for the value
\* d / ProbScale and a probability p for p / ProbScale.
ProbScale == 3
Draws == 0..(ProbScale - 1)

\* A draw compared with the probability of keeping the graphemes,
\* 1 - phoneme_probability, instead of phoneme_probability.
KeepAsGraphemes_Inverted(prob, r) ==
    prob # NoneVal /\ r > ProbScale - prob[1]

\* A draw compared by != instead of >.
KeepAsGraphemes_NotEqual(prob, r) == prob # NoneVal /\ r # prob[1]

\* "self.phoneme_probability is not None and
\*  self._rng.random() > self.phoneme_probability"
KeepAsGraphemes(prob, r) == prob # NoneVal /\ r > prob[1]

-----------------------------------------------------------------------------
(* EnglishG2p *)

\* self.phoneme_dict[word] as an expression: the entry of the word, and the
\* empty list a defaultdict(list) makes for a word it does not hold.
DefaultDictGet(d, word) == IF word \in DOMAIN d THEN d[word] ELSE <<>>

\* A test for a non-empty entry instead of an entry of one pronunciation.
IsUniqueInPhonemeDict_NonEmpty(d, word) == Len(DefaultDictGet(d, word)) >= 1

\* What is_unique_in_phoneme_dict returns when the lookup raises nothing.
IsUniqueInPhonemeDict(d, word) == Len(DefaultDictGet(d, word)) = 1

\* The method is_unique_in_phoneme_dict(word) as an operation on the
\* object: self.phoneme_dict[word] raises KeyError for a word a plain dict
\* does not hold, and a defaultdict(list) stores the empty list under it.
IsUniqueInPhonemeDictCall(obj, word) ==
    IF word \in DOMAIN obj.phoneme_dict
    THEN [obj |-> obj, raised |-> "",
          res |-> IsUniqueInPhonemeDict(obj.phoneme_dict, word)]
    ELSE IF obj.is_defaultdict
    THEN [obj |-> [obj EXCEPT !.phoneme_dict = DictPut(@, word, <<>>)],
          raised |-> "",
          res |-> IsUniqueInPhonemeDict(obj.phoneme_dict, word)]
    ELSE [obj |-> obj, raised |-> "KeyError", res |-> FALSE]

\* the condition of the `'s` suffix rule
EnAposSRule(obj, word) ==
    /\ Len(word) > 2
    /\ EndsWith(word, <<"'", "s">>)
    /\ word \notin DOMAIN obj.phoneme_dict
    /\ DropLast(word, 2) \in DOMAIN obj.phoneme_dict
    /\ (~obj.ignore_ambiguous_words
          \/ IsUniqueInPhonemeDict(obj.phoneme_dict, DropLast(word, 2)))

\* the condition of the `s` suffix rule
EnSRule(obj, word) ==
    /\ Len(word) > 1
    /\ EndsWith(word, <<"s">>)
    /\ word \notin DOMAIN obj.phoneme_dict
    /\ DropLast(word, 1) \in DOMAIN obj.phoneme_dict
    /\ (~obj.ignore_ambiguous_words
          \/ IsUniqueInPhonemeDict(obj.phoneme_dict, DropLast(word, 1)))

\* the condition of the phoneme dict rule
EnDictRule(obj, word) ==
    /\ word \in DOMAIN obj.phoneme_dict
    /\ (~obj.ignore_ambiguous_words
          \/ IsUniqueInPhonemeDict(obj.phoneme_dict, word))

\* the last return of parse_one_word
EnOov(obj, word) ==
    IF obj.apply_to_oov_word # "None"
    THEN [pron |-> OovFn(word), status |-> TRUE]
    ELSE [pron |-> word, status |-> FALSE]

\* parse_one_word with the heteronym test after the suffix rules instead of
\* before them.
EnParseOneWord_SuffixFirst(obj, word, r) ==
    IF KeepAsGraphemes(obj.phoneme_probability, r)
    THEN [pron |-> word, status |-> TRUE]
    ELSE IF ~HasWordChar(word)
    THEN [pron |-> word, status |-> TRUE]
    ELSE IF EnAposSRule(obj, word)
    THEN [pron |-> obj.phoneme_dict[DropLast(word, 2)][1] \o <<"Z">>,
          status |-> TRUE]
    ELSE IF EnSRule(obj, word)
    THEN [pron |-> obj.phoneme_dict[DropLast(word, 1)][1] \o <<"Z">>,
          status |-> TRUE]
    ELSE IF obj.heteronyms # NoneVal /\ word \in obj.heteronyms[1]
    THEN [pron |-> word, status |-> TRUE]
    ELSE IF EnDictRule(obj, word)
    THEN [pron |-> obj.phoneme_dict[word][1], status |-> TRUE]
    ELSE EnOov(obj, word)

\* EnglishG2p.parse_one_word with the draw r of self._rng.random()
EnParseOneWord(obj, word, r) ==
    IF KeepAsGraphemes(obj.phoneme_probability, r)
    THEN [pron |-> word, status |-> TRUE]
    ELSE IF ~HasWordChar(word)
    THEN [pron |-> word, status |-> TRUE]
    ELSE IF obj.heteronyms # NoneVal /\ word \in obj.heteronyms[1]
    THEN [pron |-> word, status |-> TRUE]
    ELSE IF EnAposSRule(obj, word)
    THEN [pron |-> obj.phoneme_dict[DropLast(word, 2)][1] \o <<"Z">>,
          status |-> TRUE]
    ELSE IF EnSRule(obj, word)
    THEN [pron |-> obj.phoneme_dict[DropLast(word, 1)][1] \o <<"Z">>,
          status |-> TRUE]
    ELSE IF EnDictRule(obj, word)
    THEN [pron |-> obj.phoneme_dict[word][1], status |-> TRUE]
    ELSE EnOov(obj, word)

\* str.join of a list of characters: the string a token is
RECURSIVE Join(_)
Join(word) == IF word = <<>> THEN "" ELSE Head(word) \o Join(Tail(word))

\* The draw the k-th call of self._rng.random() returns.
DrawAt(rs, k) == rs[k]

\* How many draws one parse_one_word takes from self._rng.
EnDrawsUsed(obj, word) == IF obj.phoneme_probability # NoneVal THEN 1 ELSE 0

\* The loop "for sub_word in word_by_hyphen" of __call__, from the k-th draw
\* on: the pronunciation with a hyphen after every sub-word.
RECURSIVE EnSubWords(_, _, _, _)
EnSubWords(obj, subs, rs, k) ==
    IF subs = <<>> THEN <<>>
    ELSE EnParseOneWord(obj, Head(subs), DrawAt(rs, k)).pron \o <<"-">>
             \o EnSubWords(obj, Tail(subs), rs,
                           k + EnDrawsUsed(obj, Head(subs)))

\* The last hyphen is not removed.
EnOneToken_NoPop(obj, tok, rs) ==
    IF tok.without_changes
    THEN [i \in 1..Len(tok.word) |-> Join(tok.word[i])]
    ELSE LET first == EnParseOneWord(obj, tok.word[1], DrawAt(rs, 1))
         IN IF ~first.status /\ Len(SplitHyphen(tok.word[1])) > 1
            THEN EnSubWords(obj, SplitHyphen(tok.word[1]), rs,
                            1 + EnDrawsUsed(obj, tok.word[1]))
            ELSE first.pron

\* The without_changes flag is not looked at.
EnOneToken_IgnoresFlag(obj, tok, rs) ==
    EnParseOneWord(obj, tok.word[1], 0).pron

\* One pass of the loop of EnglishG2p.__call__ over a (word, without_changes)
\* tuple: what it appends to prons, with the draws rs taken during the pass.
EnOneToken(obj, tok, rs) ==
    IF tok.without_changes
    THEN [i \in 1..Len(tok.word) |-> Join(tok.word[i])]
    ELSE LET word_str == tok.word[1]
             word_by_hyphen == SplitHyphen(word_str)
             first == EnParseOneWord(obj, word_str, DrawAt(rs, 1))
         IN IF ~first.status /\ Len(word_by_hyphen) > 1
            THEN DropLast(EnSubWords(obj, word_by_hyphen, rs,
                                     1 + EnDrawsUsed(obj, word_str)), 1)
            ELSE first.pron

-----------------------------------------------------------------------------
(* IPAG2P *)

\* _prepend_prefix_for_one_word
PrependPrefixForOneWord(obj, word) ==
    [i \in 1..Len(word) |-> obj.grapheme_prefix \o word[i]]

\* The stem a suffix rule of parse_one_word finds (word_found), NoneVal
\* when it finds none; n is the length of the suffix.
IpaWordFound(obj, word, n) ==
    IF word \notin DOMAIN obj.phoneme_dict
       /\ Upper(word) \notin DOMAIN obj.phoneme_dict
    THEN IF DropLast(word, n) \in DOMAIN obj.phoneme_dict
         THEN Some(DropLast(word, n))
         ELSE IF Upper(DropLast(word, n)) \in DOMAIN obj.phoneme_dict
         THEN Some(Upper(DropLast(word, n)))
         ELSE NoneVal
    ELSE NoneVal

\* "word_found is not None and (not self.ignore_ambiguous_words or
\*  self.is_unique_in_phoneme_dict(word_found))"
IpaStemUsable(obj, found) ==
    /\ found # NoneVal
    /\ (~obj.ignore_ambiguous_words
          \/ IsUniqueInPhonemeDict(obj.phoneme_dict, found[1]))

\* the condition of the `'s` suffix rule (with apostrophe), en-US only
IpaAposSRule(obj, word) ==
    /\ obj.locale = "en-US"
    /\ Len(word) > 2
    /\ (EndsWith(word, <<"'", "s">>) \/ EndsWith(word, <<"'", "S">>))
    /\ IpaStemUsable(obj, IpaWordFound(obj, word, 2))

\* The `'s` rule without its case for a stem that ends in s.
IpaAposSPron_NoSibilant(obj, word) ==
    LET word_found == IpaWordFound(obj, word, 2)[1]
        first == obj.phoneme_dict[word_found][1]
    IN IF word_found[Len(word_found)] \in {"T", "t"} THEN first \o <<"s">>
       ELSE first \o <<"z">>

\* what the `'s` suffix rule returns
IpaAposSPron(obj, word) ==
    LET word_found == IpaWordFound(obj, word, 2)[1]
        first == obj.phoneme_dict[word_found][1]
    IN IF word_found[Len(word_found)] \in {"T", "t"} THEN first \o <<"s">>
       ELSE IF word_found[Len(word_found)] \in {"S", "s"}
       THEN first \o <<"<U+026A>", "z">>
       ELSE first \o <<"z">>

\* the condition of the `s` suffix rule (without apostrophe), en-US only
IpaSRule(obj, word) ==
    /\ obj.locale = "en-US"
    /\ Len(word) > 1
    /\ (EndsWith(word, <<"s">>) \/ EndsWith(word, <<"S">>))
    /\ IpaStemUsable(obj, IpaWordFound(obj, word, 1))

\* what the `s` suffix rule returns
IpaSPron(obj, word) ==
    LET word_found == IpaWordFound(obj, word, 1)[1]
        first == obj.phoneme_dict[word_found][1]
    IN IF word_found[Len(word_found)] \in {"T", "t"} THEN first \o <<"s">>
       ELSE first \o <<"z">>

\* the condition of the direct lookup
IpaDictRule(obj, word) ==
    /\ word \in DOMAIN obj.phoneme_dict
    /\ (~obj.ignore_ambiguous_words
          \/ IsUniqueInPhonemeDict(obj.phoneme_dict, word))

\* the condition of the lookup of the upper-cased word (mixed case)
IpaMixedRule(obj, word) ==
    /\ obj.grapheme_case = GRAPHEME_CASE_MIXED
    /\ word \notin DOMAIN obj.phoneme_dict
    /\ Upper(word) \in DOMAIN obj.phoneme_dict

\* parse_one_word raised IndexError: "self.phoneme_dict[...][0]" of an entry
\* that holds no pronunciation.
IndexError == [raised |-> "IndexError"]
Raised(res) == "raised" \in DOMAIN res

\* "return self.phoneme_dict[w][0] + tail, True"; pron is the list the
\* return statement builds from the first pronunciation.
ReturnFirst(obj, w, pron) ==
    IF obj.phoneme_dict[w] = <<>> THEN IndexError
    ELSE [pron |-> pron, status |-> TRUE]

\* the last return of parse_one_word
IpaOov(obj, word) ==
    IF obj.apply_to_oov_word # "None"
    THEN [pron |-> OovFn(word), status |-> TRUE]
    ELSE [pron |-> PrependPrefixForOneWord(obj, word), status |-> FALSE]

\* IPAG2P.parse_one_word with the draw r of self._rng.random()
IpaParseOneWord(obj, word_in, r) ==
    LET word == SetGraphemeCase(word_in, obj.grapheme_case)
    IN IF ~HasWordChar(word)
       THEN [pron |-> word, status |-> TRUE]
       ELSE IF KeepAsGraphemes(obj.phoneme_probability, r)
       THEN [pron |-> PrependPrefixForOneWord(obj, word), status |-> TRUE]
       ELSE IF obj.heteronyms # NoneVal /\ obj.heteronyms[1] # {}
               /\ word \in obj.heteronyms[1]
       THEN [pron |-> PrependPrefixForOneWord(obj, word), status |-> TRUE]
       ELSE IF IpaAposSRule(obj, word)
       THEN ReturnFirst(obj, IpaWordFound(obj, word, 2)[1],
                        IpaAposSPron(obj, word))
       ELSE IF IpaSRule(obj, word)
       THEN ReturnFirst(obj, IpaWordFound(obj, word, 1)[1],
                        IpaSPron(obj, word))
       ELSE IF IpaDictRule(obj, word)
       THEN ReturnFirst(obj, word, obj.phoneme_dict[word][1])
       ELSE IF IpaMixedRule(obj, word)
       THEN IF ~obj.ignore_ambiguous_words
               \/ IsUniqueInPhonemeDict(obj.phoneme_dict, Upper(word))
            THEN ReturnFirst(obj, Upper(word), obj.phoneme_dict[Upper(word)][1])
            ELSE IpaOov(obj, Upper(word))
       ELSE IpaOov(obj, word)

\* How many draws one parse_one_word takes from self._rng.
IpaDrawsUsed(obj, word) ==
    IF HasWordChar(SetGraphemeCase(word, obj.grapheme_case))
       /\ obj.phoneme_probability # NoneVal
    THEN 1 ELSE 0

\* The loop "for sub_word in subwords_by_hyphen" of __call__, from the k-th
\* draw on: the pronunciation with a hyphen after every sub-word, or the
\* IndexError of a parse_one_word.
RECURSIVE IpaSubWords(_, _, _, _)
IpaSubWords(obj, subs, rs, k) ==
    IF subs = <<>> THEN [out |-> <<>>]
    ELSE LET p == IpaParseOneWord(obj, Head(subs), DrawAt(rs, k))
             rest == IpaSubWords(obj, Tail(subs), rs,
                                 k + IpaDrawsUsed(obj, Head(subs)))
         IN IF Raised(p) THEN p
            ELSE IF Raised(rest) THEN rest
            ELSE [out |-> p.pron \o <<"-">> \o rest.out]

\* One pass of the loop of IPAG2P.__call__ over a (words, without_changes)
\* tuple, with the draws rs taken during the pass: what it appends to
\* prons, or the IndexError of a parse_one_word.
IpaOneToken(obj, tok, rs) ==
    IF tok.without_changes
    THEN [out |-> [i \in 1..Len(tok.word) |->
                      obj.grapheme_prefix \o Join(tok.word[i])]]
    ELSE LET word == tok.word[1]
             first == IpaParseOneWord(obj, word, DrawAt(rs, 1))
             subwords_by_hyphen == SplitHyphen(word)
             pron == IpaSubWords(obj, subwords_by_hyphen, rs,
                                 1 + IpaDrawsUsed(obj, word))
         IN IF Raised(first) THEN first
            ELSE IF ~first.status /\ Len(subwords_by_hyphen) > 1
            THEN IF Raised(pron) THEN pron
                 ELSE [out |-> DropLast(pron.out, 1)]
            ELSE [out |-> first.pron]

\* An insertion-ordered dict as a sequence of <<key, value>> pairs: d[k] = v.
RECURSIVE ODictPut(_, _, _)
ODictPut(items, k, v) ==
    IF items = <<>> THEN <<<<k, v>>>>
    ELSE IF Head(items)[1] = k THEN <<<<k, v>>>> \o Tail(items)
    ELSE <<Head(items)>> \o ODictPut(Tail(items), k, v)

\* defaultdict(list): d[k].append(v)
RECURSIVE ODictAppend(_, _, _)
ODictAppend(items, k, v) ==
    IF items = <<>> THEN <<<<k, <<v>>>>>>
    ELSE IF Head(items)[1] = k
    THEN <<<<k, Append(Head(items)[2], v)>>>> \o Tail(items)
    ELSE <<Head(items)>> \o ODictAppend(Tail(items), k, v)

\* The dict an ordered dict is, for lookups.
RECURSIVE AsDict(_)
AsDict(items) ==
    IF items = <<>> THEN EmptyDict
    ELSE DictPut(AsDict(DropLast(items, 1)),
                 items[Len(items)][1], items[Len(items)][2])

\* re.sub(_alt_re, "", parts[0]): the word without its variant suffixes; the
\* element "(2)" stands for a parenthesised number.
RECURSIVE AltStrip(_)
AltStrip(word) ==
    IF word = <<>> THEN <<>>
    ELSE (IF Head(word) = "(2)" THEN <<>> ELSE <<Head(word)>>)
             \o AltStrip(Tail(word))

\* list(re.sub(r"\s+", "", parts[1])): the symbols without the white space.
RECURSIVE NoSpace(_)
NoSpace(rest) ==
    IF rest = <<>> THEN <<>>
    ELSE (IF Head(rest) = " " THEN <<>> ELSE <<Head(rest)>>)
             \o NoSpace(Tail(rest))

\* The test on line[0] of the file branch of _parse_phoneme_dict.
LineAccepted(line) ==
    NormalizeUnicodeText(line.word)[1] \in Letters \cup {"'"}

\* The file branch of _parse_phoneme_dict: a line is its first field (word)
\* and what follows it (rest).
RECURSIVE ParseDictFile(_)
ParseDictFile(lines) ==
    IF lines = <<>> THEN <<>>
    ELSE LET before == ParseDictFile(DropLast(lines, 1))
             line == lines[Len(lines)]
         IN IF LineAccepted(line)
            THEN ODictAppend(before,
                             AltStrip(NormalizeUnicodeText(line.word)),
                             NoSpace(NormalizeUnicodeText(line.rest)))
            ELSE before

\* The dict branch of _parse_phoneme_dict.
RECURSIVE ParseDictObject(_)
ParseDictObject(items) ==
    IF items = <<>> THEN <<>>
    ELSE LET before == ParseDictObject(DropLast(items, 1))
             word == NormalizeUnicodeText(items[Len(items)][1])
             prons == [i \in 1..Len(items[Len(items)][2]) |->
                         NormalizeUnicodeText(items[Len(items)][2][i])]
         IN ODictPut(before, word, prons)

\* IPAG2P._parse_phoneme_dict: the argument is a file (its lines) or a dict
\* object (its items, in order).
ParsePhonemeDict(arg) ==
    IF arg.kind = "file" THEN ParseDictFile(arg.lines)
    ELSE ParseDictObject(arg.items)

\* "[symbol for symbol in pron if symbol not in self.STRESS_SYMBOLS]"
RECURSIVE RemoveStress(_)
RemoveStress(pron) ==
    IF pron = <<>> THEN <<>>
    ELSE (IF Head(pron) \in STRESS_SYMBOLS THEN <<>> ELSE <<Head(pron)>>)
             \o RemoveStress(Tail(pron))

\* prons_new of _normalize_dict
PronsNew(use_stresses, prons) ==
    IF ~use_stresses
    THEN [i \in 1..Len(prons) |-> RemoveStress(prons[i])]
    ELSE prons

\* The upper-case entry is not added.
NormalizeItem_NoUpperEntry(g2p_dict, word, prons, use_stresses, grapheme_case) ==
    DictPut(g2p_dict, SetGraphemeCase(word, grapheme_case),
            PronsNew(use_stresses, prons))

\* The body of the loop of _normalize_dict for one (word, prons) item.
NormalizeItem(g2p_dict, word, prons, use_stresses, grapheme_case) ==
    LET word_new == SetGraphemeCase(word, grapheme_case)
        prons_new == PronsNew(use_stresses, prons)
        d1 == DictPut(g2p_dict, word_new, prons_new)
    IN IF grapheme_case = GRAPHEME_CASE_MIXED /\ ~IsUpper(word_new)
       THEN DictPut(d1, Upper(word_new), prons_new)
       ELSE d1

\* IPAG2P._normalize_dict: g2p_dict (the set of symbols is not modelled).
RECURSIVE NormalizeDict(_, _, _)
NormalizeDict(items, use_stresses, grapheme_case) ==
    IF items = <<>> THEN EmptyDict
    ELSE NormalizeItem(
             NormalizeDict(DropLast(items, 1), use_stresses, grapheme_case),
             items[Len(items)][1], items[Len(items)][2],
             use_stresses, grapheme_case)

\* The heteronyms IPAG2P.__init__ keeps: a list becomes a set in the
\* grapheme case, unless it is empty; anything else is None.
IpaHeteronyms(heteronyms, grapheme_case) ==
    IF heteronyms = NoneVal THEN NoneVal
    ELSE IF heteronyms[1] = {} THEN Some({})
    ELSE Some({SetGraphemeCase(het, grapheme_case) : het \in heteronyms[1]})

\* An object that was not built.
NoObject == [cls |-> "none"]

\* An empty phoneme_dict_obj is normalized like any other.
IpaInit_NoEmptyCheck(a) ==
    [err |-> "ok",
     obj |-> [cls |-> "IPAG2P",
              phoneme_dict |->
                  NormalizeDict(ParsePhonemeDict(a.phoneme_dict),
                                a.use_stresses, a.grapheme_case),
              apply_to_oov_word |-> a.apply_to_oov_word,
              ignore_ambiguous_words |-> a.ignore_ambiguous_words,
              heteronyms |-> IpaHeteronyms(a.heteronyms, a.grapheme_case),
              phoneme_probability |-> a.phoneme_probability,
              locale |-> a.locale,
              use_stresses |-> a.use_stresses,
              grapheme_case |-> a.grapheme_case,
              grapheme_prefix |-> a.grapheme_prefix,
              is_defaultdict |-> TRUE]]

\* IPAG2P.__init__: the object, or the exception it raises.
IpaInit(a) ==
    LET phoneme_dict_obj == ParsePhonemeDict(a.phoneme_dict)
    IN IF phoneme_dict_obj # <<>>
       THEN [err |-> "ok",
             obj |-> [cls |-> "IPAG2P",
                      phoneme_dict |->
                          NormalizeDict(phoneme_dict_obj, a.use_stresses,
                                        a.grapheme_case),
                      apply_to_oov_word |-> a.apply_to_oov_word,
                      ignore_ambiguous_words |-> a.ignore_ambiguous_words,
                      heteronyms |->
                          IpaHeteronyms(a.heteronyms, a.grapheme_case),
                      phoneme_probability |-> a.phoneme_probability,
                      locale |-> a.locale,
                      use_stresses |-> a.use_stresses,
                      grapheme_case |-> a.grapheme_case,
                      grapheme_prefix |-> a.grapheme_prefix,
                      is_defaultdict |-> TRUE]]
       ELSE [err |-> "ValueError", obj |-> NoObject]

\* EnglishG2p.__init__ with a dict object as phoneme_dict and a list (or
\* None) as heteronyms.
EnInit(a) ==
    [err |-> "ok",
     obj |-> [cls |-> "EnglishG2p",
              phoneme_dict |-> AsDict(a.phoneme_dict.items),
              apply_to_oov_word |-> a.apply_to_oov_word,
              ignore_ambiguous_words |-> a.ignore_ambiguous_words,
              heteronyms |-> a.heteronyms,
              phoneme_probability |-> a.phoneme_probability,
              is_defaultdict |-> FALSE]]

-----------------------------------------------------------------------------
(* Inputs *)

\* Pronunciations, two of them with a stress marker.
PronA == <<"STRESS1", "p">>
PronB == <<"q", "STRESS2">>
PronC == <<"r">>

\* The entry of a word with one pronunciation, and of an ambiguous word.
PronLists == {<<PronA>>, <<PronB, PronC>>}

DictWords == {<<"t">>, <<"T">>, <<"s">>, <<"a">>}
DictEntries == {<<w, ps>> : w \in DictWords, ps \in PronLists}

\* Dict objects: no entry, one entry, two entries in either order.
DictObjects1 ==
    {[kind |-> "dict", items |-> <<>>]}
        \cup {[kind |-> "dict", items |-> <<e>>] : e \in DictEntries}
DictObjects2 ==
    {[kind |-> "dict", items |-> <<e[1], e[2]>>] :
        e \in {p \in DictEntries \X DictEntries : p[1][1] # p[2][1]}}

\* Dictionary files: a comment line, an entry, a pronunciation variant.
CommentLine == [word |-> <<";", "t">>, rest |-> <<"p">>]
FileLines ==
    {CommentLine,
     [word |-> <<"t">>, rest |-> <<"STRESS1", "p">>],
     [word |-> <<"t", "(2)">>, rest |-> <<"q", " ", "STRESS2">>],
     [word |-> <<"'", "s">>, rest |-> <<"p">>]}
DictFiles ==
    {[kind |-> "file", lines |-> <<>>]}
        \cup {[kind |-> "file", lines |-> <<l>>] : l \in FileLines}
        \cup {[kind |-> "file", lines |-> <<l1, l2>>] :
                 l1 \in FileLines, l2 \in FileLines}

\* phoneme_probability: None, 1 / ProbScale and 1.0.
Probabilities == {NoneVal, Some(1), Some(ProbScale)}

\* heteronyms: None, or the words "t" and "ts".
HeteronymLists == {NoneVal, Some({<<"t">>, <<"t", "s">>})}

OovChoices == {"None", "fn"}

EnArgs(Dicts) ==
    [phoneme_dict : Dicts,
     apply_to_oov_word : OovChoices,
     ignore_ambiguous_words : BOOLEAN,
     heteronyms : HeteronymLists,
     phoneme_probability : Probabilities]

IpaArgs(Dicts, Locales, Stresses, Cases, Prefixes, Probs, Oovs, Hets) ==
    [phoneme_dict : Dicts,
     locale : Locales,
     apply_to_oov_word : Oovs,
     ignore_ambiguous_words : BOOLEAN,
     heteronyms : Hets,
     phoneme_probability : Probs,
     use_stresses : Stresses,
     grapheme_case : Cases,
     grapheme_prefix : Prefixes]

GraphemeCases ==
    {GRAPHEME_CASE_UPPER, GRAPHEME_CASE_LOWER, GRAPHEME_CASE_MIXED}

\* The words given to parse_one_word: a stem with or without a suffix,
\* punctuation, and words with a hyphen.
Stems == {<<"t">>, <<"T">>, <<"s">>, <<"a">>}
Suffixes == {<<>>, <<"s">>, <<"'", "s">>, <<"S">>, <<"'", "S">>}
PunctWords == {<<"'">>, <<"-">>}
HyphenWords ==
    {x \o <<"-">> \o y : x \in {<<"a">>, <<"t">>},
                         y \in {<<>>, <<"t">>, <<"t", "s">>}}
ParseWords ==
    {x \o y : x \in Stems, y \in Suffixes} \cup PunctWords \cup HyphenWords

\* The tuples word_tokenize_func returns: an unchangeable list of elements,
\* or one word (a dictionary word, a word with a suffix, a word with a
\* hyphen, punctuation).
Unchangeable(elems) == [word |-> elems, without_changes |-> TRUE]
Changeable(w) == [word |-> <<w>>, without_changes |-> FALSE]
CallTokens ==
    {Unchangeable(<<<<"T", "a">>, <<"t">>>>)}
        \cup {Changeable(w) :
                 w \in {<<"t">>, <<"t", "s">>, <<"a", "-", "t">>, <<"'">>}}

\* The words given to is_unique_in_phoneme_dict: a stem in lower and in
\* upper case, and a word with a suffix.
UniqueWords == {<<"t">>, <<"T">>, <<"T", "S">>}

\* The tokenized texts given to __call__.
MaxTokens == 2
Texts == UNION {[1..n -> CallTokens] : n \in 0..MaxTokens}

\* The draws one pass of the loop of __call__ may take: one for the word
\* and one for each of its sub-words, when phoneme_probability is set.
TokenDraws(obj, tok) ==
    IF tok.without_changes \/ obj.phoneme_probability = NoneVal THEN 0
    ELSE LET n == Len(SplitHyphen(tok.word[1]))
         IN IF n > 1 THEN 1 + n ELSE 1
DrawStreams(obj, tok) == [1..TokenDraws(obj, tok) -> Draws]
DrawsOf(obj) == IF obj.phoneme_probability = NoneVal THEN {0} ELSE Draws

\* EnglishG2p.__call__ on the tuples word_tokenize_func returns: every
\* output the draws of self._rng can lead to.
RECURSIVE EnCallOuts(_, _)
EnCallOuts(obj, words) ==
    IF words = <<>> THEN {<<>>}
    ELSE {pron \o prons :
             pron \in {EnOneToken(obj, Head(words), rs) :
                          rs \in DrawStreams(obj, Head(words))},
             prons \in EnCallOuts(obj, Tail(words))}

\* IPAG2P.__call__ on the tuples word_tokenize_func returns (heteronym_model
\* is None): every way the draws of self._rng can lead it to end, in the
\* IndexError of a parse_one_word or with the output it returns.
RECURSIVE IpaCallResults(_, _)
IpaCallResults(obj, words) ==
    IF words = <<>> THEN {[out |-> <<>>]}
    ELSE LET heads == {IpaOneToken(obj, Head(words), rs) :
                          rs \in DrawStreams(obj, Head(words))}
             returned == {h \in heads : ~Raised(h)}
         IN (heads \ returned)
               \cup (IF returned = {} THEN {}
                     ELSE {IF Raised(t) THEN t
                           ELSE [out |-> h.out \o t.out] :
                              h \in returned,
                              t \in IpaCallResults(obj, Tail(words))})

\* Every output IPAG2P.__call__ can return.
IpaCallOuts(obj, words) ==
    {res.out : res \in {x \in IpaCallResults(obj, words) : ~Raised(x)}}

-----------------------------------------------------------------------------
(* The state machine *)

\* parse_one_word and __call__ assign no field of the object, so what they
\* return depends on the object alone (and on the draws): an operation is
\* applied to the object as construction, replace_dict or an
\* is_unique_in_phoneme_dict that stored an entry left it.
Fresh ==
    \/ last.op \in {"__init__", "replace_dict"}
    \/ last.op = "is_unique_in_phoneme_dict" /\ last.stored

InitOf(EnArgSet, IpaArgSet) ==
    /\ \/ \E a \in EnArgSet :
             args = a /\ g = EnInit(a).obj /\ err = EnInit(a).err
       \/ \E a \in IpaArgSet :
             args = a /\ g = IpaInit(a).obj /\ err = IpaInit(a).err
    /\ replaced = FALSE
    /\ last = [op |-> "__init__"]

\* EnglishG2p.parse_one_word(word)
EnParse ==
    /\ err = "ok" /\ g.cls = "EnglishG2p" /\ Fresh
    /\ \E word \in ParseWords, r \in DrawsOf(g) :
          last' = [op |-> "parse_one_word", word |-> word, r |-> r,
                   res |-> EnParseOneWord(g, word, r)]
    /\ UNCHANGED <<g, err, args, replaced>>

\* EnglishG2p.__call__(text)
EnCallOp ==
    /\ err = "ok" /\ g.cls = "EnglishG2p" /\ Fresh
    /\ \E words \in Texts :
          \E out \in EnCallOuts(g, words) :
             last' = [op |-> "__call__", words |-> words, out |-> out]
    /\ UNCHANGED <<g, err, args, replaced>>

\* EnglishG2p.is_unique_in_phoneme_dict(word)
EnIsUnique ==
    /\ err = "ok" /\ g.cls = "EnglishG2p" /\ Fresh
    /\ \E word \in UniqueWords :
          LET call == IsUniqueInPhonemeDictCall(g, word)
          IN /\ g' = call.obj
             /\ last' = [op |-> "is_unique_in_phoneme_dict", word |-> word,
                         raised |-> call.raised, res |-> call.res,
                         stored |-> call.obj # g]
    /\ UNCHANGED <<err, args, replaced>>

\* IPAG2P.parse_one_word(word)
IpaParse ==
    /\ err = "ok" /\ g.cls = "IPAG2P" /\ Fresh
    /\ \E word \in ParseWords, r \in DrawsOf(g) :
          last' = [op |-> "parse_one_word", word |-> word, r |-> r,
                   res |-> IpaParseOneWord(g, word, r)]
    /\ UNCHANGED <<g, err, args, replaced>>

\* IPAG2P.__call__(text): it returns an output, or ends in the IndexError of
\* a parse_one_word.
IpaCallOp ==
    /\ err = "ok" /\ g.cls = "IPAG2P" /\ Fresh
    /\ \E words \in Texts :
          \E res \in IpaCallResults(g, words) :
             last' = IF Raised(res)
                     THEN [op |-> "__call__", words |-> words,
                           raised |-> res.raised]
                     ELSE [op |-> "__call__", words |-> words,
                           out |-> res.out]
    /\ UNCHANGED <<g, err, args, replaced>>

\* IPAG2P.is_unique_in_phoneme_dict(word)
IpaIsUnique ==
    /\ err = "ok" /\ g.cls = "IPAG2P" /\ Fresh
    /\ \E word \in UniqueWords :
          LET call == IsUniqueInPhonemeDictCall(g, word)
          IN /\ g' = call.obj
             /\ last' = [op |-> "is_unique_in_phoneme_dict", word |-> word,
                         raised |-> call.raised, res |-> call.res,
                         stored |-> call.obj # g]
    /\ UNCHANGED <<err, args, replaced>>

\* IPAG2P.is_unique_in_phoneme_dict("T")
IpaIsUniqueUpperStem ==
    /\ err = "ok" /\ g.cls = "IPAG2P" /\ Fresh
    /\ LET call == IsUniqueInPhonemeDictCall(g, <<"T">>)
       IN /\ g' = call.obj
          /\ last' = [op |-> "is_unique_in_phoneme_dict", word |-> <<"T">>,
                      raised |-> call.raised, res |-> call.res,
                      stored |-> call.obj # g]
    /\ UNCHANGED <<err, args, replaced>>

\* The dictionaries given to replace_dict.
ReplaceArgs ==
    {[kind |-> "dict", items |-> <<>>],
     [kind |-> "dict", items |-> <<<<<<"t">>, <<PronA>>>>>>],
     [kind |-> "dict", items |-> <<<<<<"T">>, <<PronB, PronC>>>>>>],
     [kind |-> "file",
      lines |-> <<[word |-> <<"t", "s">>, rest |-> <<"q", " ", "STRESS2">>]>>]}

\* IPAG2P.replace_dict(phoneme_dict)
ReplaceDict ==
    /\ err = "ok" /\ g.cls = "IPAG2P" /\ Fresh
    /\ \E arg \in ReplaceArgs :
          /\ g' = [g EXCEPT !.phoneme_dict = AsDict(ParsePhonemeDict(arg)),
                            !.is_defaultdict = (arg.kind = "file")]
          /\ last' = [op |-> "replace_dict", arg |-> arg]
    /\ replaced' = TRUE
    /\ UNCHANGED <<err, args>>

\* EnglishG2p objects and IPAG2P objects with locale en-US and
\* grapheme_prefix "#": is_unique_in_phoneme_dict, parse_one_word and
\* __call__.
Init ==
    InitOf(EnArgs(DictObjects1),
           IpaArgs(DictObjects1, {"en-US"}, {TRUE},
                   GraphemeCases, {"#"}, Probabilities, OovChoices,
                   HeteronymLists))
Next ==
    \/ EnParse \/ EnCallOp \/ EnIsUnique
    \/ IpaParse \/ IpaCallOp \/ IpaIsUniqueUpperStem
Spec == Init /\ [][Next]_vars

\* IPAG2P objects built from dict objects and dictionary files, with
\* replace_dict and is_unique_in_phoneme_dict.
InitIpa ==
    InitOf({},
           IpaArgs(DictObjects1 \cup DictObjects2 \cup DictFiles, {"en-US"},
                   BOOLEAN, GraphemeCases, {""}, {NoneVal}, {"None"},
                   {NoneVal}))
NextIpa == IpaParse \/ IpaCallOp \/ IpaIsUnique \/ ReplaceDict
SpecIpa == InitIpa /\ [][NextIpa]_vars

\* Dict objects of two entries whose words are casings of one word.
Casings == {<<"t", "s">>, <<"T", "s">>, <<"T", "S">>}
CasingDicts ==
    {[kind |-> "dict", items |-> <<<<e[1], e[3]>>, <<e[2], e[4]>>>>] :
        e \in {x \in Casings \X Casings \X PronLists \X PronLists :
                  x[1] # x[2]}}

\* heteronyms: None, or the upper-case words "T" and "TS".
UpperHeteronymLists == {NoneVal, Some({<<"T">>, <<"T", "S">>})}

\* IPAG2P objects with grapheme_case mixed, is_unique_in_phoneme_dict and
\* parse_one_word.
InitUpper ==
    InitOf({},
           IpaArgs(DictObjects1 \cup DictObjects2 \cup DictFiles
                       \cup CasingDicts,
                   {"en-US"}, BOOLEAN, {GRAPHEME_CASE_MIXED}, {""},
                   {NoneVal, Some(1)}, {"None"}, UpperHeteronymLists))
NextUpper == IpaParse \/ IpaIsUnique
SpecUpper == InitUpper /\ [][NextUpper]_vars

\* Dict objects for the suffix rules: at most one entry of a one-letter
\* word, or the word "ts" and a one-letter word.
SuffixDicts ==
    DictObjects1
        \cup {[kind |-> "dict", items |-> <<<<<<"t", "s">>, ps>>, e>>] :
                 ps \in PronLists, e \in DictEntries}

\* IPAG2P objects of two locales, is_unique_in_phoneme_dict and
\* parse_one_word.
InitSuffix ==
    InitOf({},
           IpaArgs(SuffixDicts, {"en-US", "de-DE"}, {TRUE}, GraphemeCases,
                   {""}, {NoneVal, Some(1)}, OovChoices, HeteronymLists))
NextSuffix == IpaParse \/ IpaIsUnique
SpecSuffix == InitSuffix /\ [][NextSuffix]_vars

-----------------------------------------------------------------------------
(* ChineseG2p *)

\* self.tones
Tones == [d \in {"1", "2", "3", "4", "5"} |-> "#" \o d]

\* Chinese characters, written in ASCII: U+6211 (wo3) and U+4E86 (le5,
\* neutral tone).
Hanzi == {"<U+6211>", "<U+4E86>"}

\* The symbols of a text that are not Chinese characters: a letter, a space,
\* punctuation and digits.
NonHanzi == {"A", " ", ",", "0", "3"}

\* What self._lazy_pinyin(word, style=TONE3, neutral_tone_with_five=True,
\* errors=lambda en_words: [letter for letter in en_words]) returns for one
\* symbol: the pinyin of a Chinese character with the digit of its tone, and
\* every other symbol as an item of its own.
LazyPinyinOne(sym) ==
    CASE sym = "<U+6211>" -> <<"w", "o", "3">>
      [] sym = "<U+4E86>" -> <<"l", "e", "5">>
      [] OTHER -> <<sym>>

\* pinyin_seq of __call__, with the word_segmenter lambda x: [x].
LazyPinyin(text) == [i \in 1..Len(text) |-> LazyPinyinOne(text[i])]

\* The loop "for pinyin in pinyin_seq" of __call__: phoneme_seq, or the
\* AssertionError of the first item whose pinyin is not in phoneme_dict.
RECURSIVE ZhPhonemeSeq(_, _)
ZhPhonemeSeq(obj, pinyin_seq) ==
    IF pinyin_seq = <<>> THEN [raised |-> FALSE, out |-> <<>>]
    ELSE LET pinyin == Head(pinyin_seq)
             rest == ZhPhonemeSeq(obj, Tail(pinyin_seq))
         IN IF pinyin[Len(pinyin)] \in DOMAIN Tones
            THEN IF DropLast(pinyin, 1) \notin DOMAIN obj.phoneme_dict
                 THEN [raised |-> TRUE, out |-> <<>>]
                 ELSE IF rest.raised THEN rest
                 ELSE [raised |-> FALSE,
                       out |-> obj.phoneme_dict[DropLast(pinyin, 1)]
                                  \o <<Tones[pinyin[Len(pinyin)]]>>
                                  \o rest.out]
            ELSE IF rest.raised THEN rest
            ELSE [raised |-> FALSE, out |-> <<Join(pinyin)>> \o rest.out]

\* ChineseG2p.__call__(text)
ZhCall(obj, text) == ZhPhonemeSeq(obj, LazyPinyin(text))

\* ChineseG2p.__init__ with phoneme_dict given as a dict or not given.
ZhInit(a) ==
    IF a.phoneme_dict = NoneVal
    THEN [err |-> "AssertionError", obj |-> NoObject]
    ELSE [err |-> "ok",
          obj |-> [cls |-> "ChineseG2p", phoneme_dict |-> a.phoneme_dict[1]]]

\* Pinyin dictionaries, with "#" before each phoneme as
\* _parse_as_pinyin_dict builds them: both syllables, or "wo" alone.
ZhDicts ==
    {(<<"w", "o">> :> <<"#w", "#o">>) @@ (<<"l", "e">> :> <<"#l", "#e">>),
     (<<"w", "o">> :> <<"#w", "#o">>)}
ZhArgs == [phoneme_dict : {NoneVal} \cup {Some(d) : d \in ZhDicts}]

\* The texts given to __call__.
MaxTextLen == 3
ZhTexts == UNION {[1..n -> Hanzi \cup NonHanzi] : n \in 0..MaxTextLen}

\* ChineseG2p.__call__(text)
ZhCallOp ==
    /\ err = "ok" /\ g.cls = "ChineseG2p" /\ Fresh
    /\ \E text \in ZhTexts :
          last' = [op |-> "__call__", text |-> text, res |-> ZhCall(g, text)]
    /\ UNCHANGED <<g, err, args, replaced>>

\* ChineseG2p objects and __call__.
InitZh ==
    /\ \E a \in ZhArgs :
          args = a /\ g = ZhInit(a).obj /\ err = ZhInit(a).err
    /\ replaced = FALSE
    /\ last = [op |-> "__init__"]
NextZh == ZhCallOp
SpecZh == InitZh /\ [][NextZh]_vars

-----------------------------------------------------------------------------
(* The claims *)

\* parse_one_word and the outputs of __call__ of the object's class.
ParseOneWord(obj, word, r) ==
    IF obj.cls = "EnglishG2p" THEN EnParseOneWord(obj, word, r)
    ELSE IpaParseOneWord(obj, word, r)
CallOuts(obj, words) ==
    IF obj.cls = "EnglishG2p" THEN EnCallOuts(obj, words)
    ELSE IpaCallOuts(obj, words)

\* Every way __call__ can end; an EnglishG2p built with a dict object
\* returns, every entry of its phoneme_dict holds a pronunciation.
CallResults(obj, words) ==
    IF obj.cls = "EnglishG2p"
    THEN {[out |-> out] : out \in EnCallOuts(obj, words)}
    ELSE IpaCallResults(obj, words)

\* How the last __call__ ended.
LastCallResult ==
    IF "out" \in DOMAIN last THEN [out |-> last.out]
    ELSE [raised |-> last.raised]

\* The last operation was a parse_one_word, or a __call__, that returned.
ParseReturned == last.op = "parse_one_word" /\ ~Raised(last.res)
CallReturned == last.op = "__call__" /\ "out" \in DOMAIN last

\* The object with phoneme_probability=None.
WithoutProbability(obj) == [obj EXCEPT !.phoneme_probability = NoneVal]

\* The word parse_one_word looks up: IPAG2P sets its case first.
Cased(obj, word) ==
    IF obj.cls = "IPAG2P" THEN SetGraphemeCase(word, obj.grapheme_case)
    ELSE word

\* The graphemes parse_one_word returns for a word with a letter.
Graphemes(obj, word) ==
    IF obj.cls = "IPAG2P"
    THEN [i \in 1..Len(word) |-> obj.grapheme_prefix \o word[i]]
    ELSE word

IsHeteronym(obj, word) ==
    obj.heteronyms # NoneVal /\ word \in obj.heteronyms[1]

Ambiguous(obj, word) ==
    word \in DOMAIN obj.phoneme_dict /\ Len(obj.phoneme_dict[word]) > 1

\* C1 as stated: G2P conversion is deterministic: with the dictionary and
\* the configuration fixed, every call of __call__ on a text returns the
\* same output, whatever phoneme_probability is.
C1_Deterministic ==
    last.op = "__call__" =>
        \A res \in CallResults(g, last.words) : res = LastCallResult

\* C1 as amended: with phoneme_probability None or 1.0, every call of
\* __call__ on a text returns the same output (every call ends in the same
\* way).
C1_DeterministicWithoutDraws ==
    (last.op = "__call__"
       /\ g.phoneme_probability \in {NoneVal, Some(ProbScale)}) =>
        \A res \in CallResults(g, last.words) : res = LastCallResult

\* A call that converted a word through the dictionary, with
\* phoneme_probability 1.0.
C1_Witness ==
    /\ CallReturned
    /\ g.phoneme_probability = Some(ProbScale)
    /\ \E i \in 1..Len(last.out) : last.out[i] = "p"

\* The rules of parse_one_word, as C2 lists them.
C2_HandledByARule(obj, word_in, r) ==
    LET word == Cased(obj, word_in)
        d == obj.phoneme_dict
        usable(w) ==
            w \in DOMAIN d /\ (~obj.ignore_ambiguous_words \/ Len(d[w]) = 1)
        suffix(n) ==
            /\ Len(word) > n
            /\ word \notin DOMAIN d
            /\ IF obj.cls = "EnglishG2p" THEN usable(DropLast(word, n))
               ELSE /\ obj.locale = "en-US"
                    /\ Upper(word) \notin DOMAIN d
                    /\ IF DropLast(word, n) \in DOMAIN d
                       THEN usable(DropLast(word, n))
                       ELSE usable(Upper(DropLast(word, n)))
    IN \* punctuation
       \/ \A i \in 1..Len(word) : word[i] \notin Letters
       \* probability keep
       \/ (obj.phoneme_probability # NoneVal /\ r > obj.phoneme_probability[1])
       \* heteronym
       \/ IsHeteronym(obj, word)
       \* suffix rules
       \/ (suffix(2) /\ word[Len(word) - 1] = "'"
             /\ word[Len(word)]
                  \in (IF obj.cls = "EnglishG2p" THEN {"s"} ELSE {"s", "S"}))
       \/ (suffix(1)
             /\ word[Len(word)]
                  \in (IF obj.cls = "EnglishG2p" THEN {"s"} ELSE {"s", "S"}))
       \* dictionary lookup
       \/ usable(word)
       \/ (obj.cls = "IPAG2P" /\ obj.grapheme_case = GRAPHEME_CASE_MIXED
             /\ word \notin DOMAIN d /\ usable(Upper(word)))

\* The status of a parse_one_word that returned is False if and only if no
\* rule handled the word and apply_to_oov_word is None.
C2_StatusOfReturns ==
    ParseReturned =>
        (last.res.status = FALSE
           <=> (~C2_HandledByARule(g, last.word, last.r)
                  /\ g.apply_to_oov_word = "None"))

\* C2: parse_one_word returns a status, which is False if and only if no
\* rule handled the word and apply_to_oov_word is None, and True in every
\* other case.
C2_StatusFalseIffUnhandled ==
    /\ last.op = "parse_one_word" => ~Raised(last.res)
    /\ C2_StatusOfReturns

\* The first part of C3: with ignore_ambiguous_words=True, parse_one_word
\* returns the graphemes of an ambiguous word, or what apply_to_oov_word
\* returns for it.
C3_AmbiguousIgnored ==
    LET word == Cased(g, last.word)
    IN (g.ignore_ambiguous_words /\ Ambiguous(g, word)) =>
           last.res.pron \in {Graphemes(g, word), OovFn(word)}

\* The phonemes a suffix rule appends.
SuffixPhonemes == {<<"Z">>, <<"s">>, <<"z">>, <<"<U+026A>", "z">>}

\* The second part of C3: with ignore_ambiguous_words=True, the result is
\* never the first pronunciation of an ambiguous stem with a suffix.
C3_AmbiguousStemUnused ==
    g.ignore_ambiguous_words =>
        \A stem \in DOMAIN g.phoneme_dict :
            Len(g.phoneme_dict[stem]) > 1 =>
                \A x \in SuffixPhonemes :
                    last.res.pron # g.phoneme_dict[stem][1] \o x

\* C3 as stated: with ignore_ambiguous_words=True an ambiguous word is never
\* converted from the dictionary and the suffix rules never use an ambiguous
\* stem; with ignore_ambiguous_words=False parse_one_word returns the first
\* pronunciation of the entry.
C3_AmbiguousWords ==
    last.op = "parse_one_word" =>
        /\ C3_AmbiguousIgnored
        /\ C3_AmbiguousStemUnused
        /\ (~g.ignore_ambiguous_words /\ Ambiguous(g, Cased(g, last.word))) =>
               last.res.pron = g.phoneme_dict[Cased(g, last.word)][1]

\* C3 as amended: the same, and with ignore_ambiguous_words=False
\* parse_one_word returns the first pronunciation of the entry unless the
\* draw keeps the word as graphemes or the word is a heteronym.
C3_AmbiguousWordsUnlessKept ==
    last.op = "parse_one_word" =>
        /\ C3_AmbiguousIgnored
        /\ C3_AmbiguousStemUnused
        /\ (/\ ~g.ignore_ambiguous_words
            /\ Ambiguous(g, Cased(g, last.word))
            /\ ~(g.phoneme_probability # NoneVal
                   /\ last.r > g.phoneme_probability[1])
            /\ ~IsHeteronym(g, Cased(g, last.word))) =>
               last.res.pron = g.phoneme_dict[Cased(g, last.word)][1]

\* parse_one_word left an ambiguous word unconverted, and the word with a
\* suffix of an ambiguous stem too, with ignore_ambiguous_words=True.
C3_Witness ==
    /\ ParseReturned
    /\ g.ignore_ambiguous_words
    /\ \/ Ambiguous(g, Cased(g, last.word))
       \/ (Len(last.word) = 2 /\ last.word[2] = "s"
             /\ Ambiguous(g, <<Cased(g, last.word)[1]>>))
    /\ ~last.res.status

\* The characters of the words of a text, and the elements of its
\* unchangeable tokens.
RECURSIVE AsCharacters(_)
AsCharacters(words) ==
    IF words = <<>> THEN <<>>
    ELSE (IF Head(words).without_changes
          THEN [i \in 1..Len(Head(words).word) |-> Join(Head(words).word[i])]
          ELSE Head(words).word[1])
             \o AsCharacters(Tail(words))

\* C4 as stated: EnglishG2p.__call__ returns a word that has no entry in
\* phoneme_dict as its characters.
C4_NoEntryAsCharacters ==
    (/\ last.op = "__call__" /\ g.cls = "EnglishG2p"
     /\ \A i \in 1..Len(last.words) :
           ~last.words[i].without_changes =>
               last.words[i].word[1] \notin DOMAIN g.phoneme_dict) =>
        last.out = AsCharacters(last.words)

\* The ambiguity setting lets parse_one_word use the entry of w.
C4_Usable(obj, w) ==
    /\ w \in DOMAIN obj.phoneme_dict
    /\ (~obj.ignore_ambiguous_words \/ Len(obj.phoneme_dict[w]) = 1)

\* Neither the word, nor its stem before a final 's, nor its stem before a
\* final s has a usable entry.
C4_NoUsableEntry(obj, word) ==
    /\ ~C4_Usable(obj, word)
    /\ EndsWith(word, <<"'", "s">>) => ~C4_Usable(obj, DropLast(word, 2))
    /\ EndsWith(word, <<"s">>) => ~C4_Usable(obj, DropLast(word, 1))

\* Neither the word nor one of its hyphen-separated sub-words has a usable
\* entry, as it is or as a stem.
C4_NothingUsable(obj, word) ==
    /\ C4_NoUsableEntry(obj, word)
    /\ \A k \in 1..Len(SplitHyphen(word)) :
          SplitHyphen(word)[k] # <<>> =>
              C4_NoUsableEntry(obj, SplitHyphen(word)[k])

\* The word may be returned as its characters: apply_to_oov_word is None,
\* or the word is punctuation or a heteronym, or a draw of the
\* phoneme_probability test can keep it.
C4_CharactersAllowed(obj, word) ==
    \/ obj.apply_to_oov_word = "None"
    \/ ~HasWordChar(word)
    \/ IsHeteronym(obj, word)
    \/ (obj.phoneme_probability # NoneVal
          /\ \E r \in Draws : r > obj.phoneme_probability[1])

\* The word may be returned as apply_to_oov_word(word): the function is
\* given and the word is neither punctuation nor a heteronym.
C4_OovAllowed(obj, word) ==
    /\ obj.apply_to_oov_word # "None"
    /\ HasWordChar(word)
    /\ ~IsHeteronym(obj, word)

\* The output is, token after token, the elements of an unchangeable token,
\* or the characters of the word, or apply_to_oov_word(word), as allowed.
RECURSIVE C4_Returned(_, _, _)
C4_Returned(obj, out, words) ==
    IF words = <<>> THEN out = <<>>
    ELSE LET tok == Head(words)
             fits(p) ==
                 /\ Len(out) >= Len(p)
                 /\ SubSeq(out, 1, Len(p)) = p
                 /\ C4_Returned(obj, SubSeq(out, Len(p) + 1, Len(out)),
                                Tail(words))
         IN IF tok.without_changes
            THEN fits([i \in 1..Len(tok.word) |-> Join(tok.word[i])])
            ELSE \/ C4_CharactersAllowed(obj, tok.word[1])
                      /\ fits(tok.word[1])
                 \/ C4_OovAllowed(obj, tok.word[1])
                      /\ fits(OovFn(tok.word[1]))

\* C4 as amended: EnglishG2p.__call__ returns a word for which neither the
\* word, nor its hyphen-separated sub-words, nor their stems before a final
\* 's or s, have a usable entry in phoneme_dict as its characters when
\* apply_to_oov_word is None; when apply_to_oov_word is given it returns
\* apply_to_oov_word(word) for it, and its characters if the word is
\* punctuation, a heteronym or kept by the phoneme_probability draw.
C4_NoUsableEntryAsCharacters ==
    (/\ last.op = "__call__" /\ g.cls = "EnglishG2p"
     /\ \A i \in 1..Len(last.words) :
           ~last.words[i].without_changes =>
               C4_NothingUsable(g, last.words[i].word[1])) =>
        /\ C4_Returned(g, last.out, last.words)
        /\ g.apply_to_oov_word = "None" =>
              last.out = AsCharacters(last.words)

\* A call on a word with a hyphen and no usable entry, of an EnglishG2p
\* whose dictionary has an entry.
C4_Witness ==
    /\ last.op = "__call__" /\ g.cls = "EnglishG2p"
    /\ g.apply_to_oov_word = "None"
    /\ DOMAIN g.phoneme_dict # {}
    /\ last.words = <<Changeable(<<"a", "-", "t">>)>>
    /\ last.out = <<"a", "-", "t">>

\* C5: with phoneme_probability=1.0 parse_one_word returns what it returns
\* with phoneme_probability=None, whatever the draw.
C5_NoneIsOne ==
    (last.op = "parse_one_word" /\ g.phoneme_probability = Some(ProbScale)) =>
        last.res = ParseOneWord(WithoutProbability(g), last.word, last.r)

\* parse_one_word converted a word through the dictionary with
\* phoneme_probability=1.0 and the largest draw.
C5_Witness ==
    /\ ParseReturned
    /\ g.phoneme_probability = Some(ProbScale)
    /\ last.r = ProbScale - 1
    /\ last.res.pron = PronA

\* The word cannot be converted: it is punctuation, or neither the word, nor
\* its sub-words, nor their stems, nor their upper-case forms have an entry
\* the ambiguity setting lets parse_one_word use.
C6_CannotPhonemize(obj, word_in) ==
    LET word == Cased(obj, word_in)
        d == obj.phoneme_dict
        forms(w) == {w, DropLast(w, 1), DropLast(w, 2)}
        variants(w) == forms(w) \cup {Upper(v) : v \in forms(w)}
        parts == {word} \cup {SplitHyphen(word)[k] :
                                 k \in 1..Len(SplitHyphen(word))}
    IN \/ ~HasWordChar(word)
       \/ \A part \in parts : \A w \in variants(part) :
             w \notin DOMAIN d
                \/ (obj.ignore_ambiguous_words /\ Len(d[w]) > 1
                      /\ w = word)

\* C6: a token that cannot be converted is processed by __call__ as it is
\* with phoneme_probability=None, whatever the draw.
C6_KeepOnlyIfPhonemizable ==
    (/\ CallReturned
     /\ \A i \in 1..Len(last.words) :
           ~last.words[i].without_changes =>
               C6_CannotPhonemize(g, last.words[i].word[1])) =>
        last.out \in CallOuts(WithoutProbability(g), last.words)

\* C7: with use_stresses=False no pronunciation of phoneme_dict and no token
\* of an output holds a stress symbol, whatever replace_dict and __call__
\* operations followed construction.
C7_NoStressSymbols ==
    (err = "ok" /\ g.cls = "IPAG2P" /\ ~g.use_stresses) =>
        /\ \A w \in DOMAIN g.phoneme_dict :
              \A i \in 1..Len(g.phoneme_dict[w]) :
                 \A k \in 1..Len(g.phoneme_dict[w][i]) :
                    g.phoneme_dict[w][i][k] \notin STRESS_SYMBOLS
        /\ CallReturned =>
              \A i \in 1..Len(last.out) : last.out[i] \notin STRESS_SYMBOLS

\* The dictionary yields no entries: a dict object without items, or a file
\* in which no line starts with a letter or an apostrophe.
C8_YieldsNoEntries(arg) ==
    IF arg.kind = "dict" THEN Len(arg.items) = 0
    ELSE \A i \in 1..Len(arg.lines) :
            arg.lines[i].word[1] \notin Letters \cup {"'"}

\* C8: constructing IPAG2P with a dictionary that yields no entries raises
\* ValueError, and a constructed IPAG2P has a phoneme_dict with an entry.
C8_EmptyDictRaises ==
    last.op = "__init__" =>
        /\ C8_YieldsNoEntries(args.phoneme_dict) => err = "ValueError"
        /\ err = "ok" => DOMAIN g.phoneme_dict # {}

\* Construction from a file of one comment line raised ValueError.
C8_Witness ==
    /\ last.op = "__init__"
    /\ args.phoneme_dict = [kind |-> "file", lines |-> <<CommentLine>>]
    /\ err = "ValueError"

\* The items of the dictionary __init__ was given, as _parse_phoneme_dict
\* returns them.
C9_Items == ParsePhonemeDict(args.phoneme_dict)

\* What C9 says of the i-th item of the input dictionary, a word that is
\* not all upper case: phoneme_dict maps the upper-cased word to the
\* pronunciations of the word, and parse_one_word of the upper-cased word
\* returns the first of them, subject to the ambiguity setting.
C9_UpperFindsEntry(i) ==
    LET w == C9_Items[i][1]
        prons == PronsNew(g.use_stresses, C9_Items[i][2])
    IN /\ Upper(w) \in DOMAIN g.phoneme_dict
       /\ g.phoneme_dict[Upper(w)] = prons
       /\ (/\ last.op = "parse_one_word" /\ last.word = Upper(w)
           /\ (~g.ignore_ambiguous_words \/ Len(prons) = 1)) =>
              last.res = [pron |-> prons[1], status |-> TRUE]

\* C9 as stated: with grapheme_case mixed, for every word of the input
\* dictionary that is not all upper case, whatever the other entries and
\* their order.
C9_UpperCaseAugmented ==
    (err = "ok" /\ g.cls = "IPAG2P" /\ ~replaced
       /\ g.grapheme_case = GRAPHEME_CASE_MIXED) =>
        \A i \in 1..Len(C9_Items) :
            ~IsUpper(C9_Items[i][1]) => C9_UpperFindsEntry(i)

\* The last item of the input dictionary whose word has the upper-case form
\* of the word of the i-th item.
C9_LastOfUpperForm(i) ==
    CHOOSE k \in i..Len(C9_Items) :
        /\ Upper(C9_Items[k][1]) = Upper(C9_Items[i][1])
        /\ \A j \in (k + 1)..Len(C9_Items) :
              Upper(C9_Items[j][1]) # Upper(C9_Items[i][1])

\* phoneme_dict maps the upper-cased word of the i-th item to the
\* pronunciations of the last item of that upper-case form, and
\* parse_one_word of the upper-cased word returns the first of them, subject
\* to the ambiguity setting, unless the draw keeps the word as graphemes or
\* the upper-cased word is a heteronym: then it returns the graphemes.
C9_UpperFindsLast(i) ==
    LET w == C9_Items[i][1]
        prons == PronsNew(g.use_stresses,
                          C9_Items[C9_LastOfUpperForm(i)][2])
    IN /\ Upper(w) \in DOMAIN g.phoneme_dict
       /\ g.phoneme_dict[Upper(w)] = prons
       /\ (/\ last.op = "parse_one_word" /\ last.word = Upper(w)
           /\ (~g.ignore_ambiguous_words \/ Len(prons) = 1)
           /\ ~KeepAsGraphemes(g.phoneme_probability, last.r)
           /\ ~IsHeteronym(g, Upper(w))) =>
              last.res = [pron |-> prons[1], status |-> TRUE]
       /\ (/\ last.op = "parse_one_word" /\ last.word = Upper(w)
           /\ (KeepAsGraphemes(g.phoneme_probability, last.r)
                  \/ IsHeteronym(g, Upper(w)))) =>
              last.res = [pron |-> Graphemes(g, Upper(w)), status |-> TRUE]

\* C9 as amended: with grapheme_case mixed, for every word of the input
\* dictionary that is not all upper case, phoneme_dict maps the upper-cased
\* word to the pronunciations of the last entry of that upper-case form
\* (the word itself when no later entry shares it), and parse_one_word of
\* the upper-cased word returns the first of them unless the draw keeps the
\* word or the upper-cased word is a heteronym.
C9_UpperCaseAugmentedLast ==
    (err = "ok" /\ g.cls = "IPAG2P" /\ ~replaced
       /\ g.grapheme_case = GRAPHEME_CASE_MIXED) =>
        \A i \in 1..Len(C9_Items) :
            ~IsUpper(C9_Items[i][1]) => C9_UpperFindsLast(i)

\* parse_one_word of "TS" returned the first pronunciation of the entry
\* "Ts", the later one of the two entries "ts" and "Ts" whose
\* pronunciations differ.
C9_Witness ==
    /\ g.cls = "IPAG2P" /\ ~replaced
    /\ g.grapheme_case = GRAPHEME_CASE_MIXED
    /\ args.phoneme_dict.kind = "dict"
    /\ Len(args.phoneme_dict.items) = 2
    /\ args.phoneme_dict.items[1][1] = <<"t", "s">>
    /\ args.phoneme_dict.items[2][1] = <<"T", "s">>
    /\ args.phoneme_dict.items[1][2] # args.phoneme_dict.items[2][2]
    /\ last.op = "parse_one_word" /\ last.word = <<"T", "S">>
    /\ last.res =
          [pron |-> PronsNew(g.use_stresses, args.phoneme_dict.items[2][2])[1],
           status |-> TRUE]

\* What one pass of the loop of __call__ appends for a token, with the
\* draws rs.
C10_TokenOut(obj, tok, rs) ==
    IF obj.cls = "EnglishG2p" THEN [out |-> EnOneToken(obj, tok, rs)]
    ELSE IpaOneToken(obj, tok, rs)

\* The output is, token after token, the elements of an unchangeable token
\* (with grapheme_prefix before each, for IPAG2P) or what the word of the
\* token converts to.
RECURSIVE C10_Framed(_, _, _)
C10_Framed(obj, out, words) ==
    IF words = <<>> THEN out = <<>>
    ELSE LET tok == Head(words)
             n == Len(tok.word)
         IN IF tok.without_changes
            THEN /\ Len(out) >= n
                 /\ \A i \in 1..n :
                       out[i] = (IF obj.cls = "IPAG2P"
                                 THEN obj.grapheme_prefix ELSE "")
                                    \o Join(tok.word[i])
                 /\ C10_Framed(obj, SubSeq(out, n + 1, Len(out)), Tail(words))
            ELSE \E rs \in DrawStreams(obj, tok) :
                    LET res == C10_TokenOut(obj, tok, rs)
                        pron == res.out
                    IN /\ ~Raised(res)
                       /\ Len(out) >= Len(pron)
                       /\ SubSeq(out, 1, Len(pron)) = pron
                       /\ C10_Framed(obj,
                                     SubSeq(out, Len(pron) + 1, Len(out)),
                                     Tail(words))

\* C10: the elements of the unchangeable tokens are in the output of
\* __call__ in their order and at their position, as they are (EnglishG2p)
\* or with grapheme_prefix before each (IPAG2P).
C10_UnchangeableVerbatim ==
    CallReturned => C10_Framed(g, last.out, last.words)

\* A call of an IPAG2P with prefix "#" on the word "ts", found through its
\* stem, and an unchangeable token of two elements after it.
C10_Witness ==
    /\ CallReturned /\ g.cls = "IPAG2P" /\ g.grapheme_prefix = "#"
    /\ last.words = <<Changeable(<<"t", "s">>),
                      Unchangeable(<<<<"T", "a">>, <<"t">>>>)>>
    /\ last.out = PronA \o <<"s", "#Ta", "#t">>

\* C11: parse_one_word of a word that is in the heteronyms set returns the
\* graphemes of the word with status True, whatever entry the word or its
\* stem has in phoneme_dict and whatever apply_to_oov_word is: the word is
\* neither converted through the dictionary or a suffix rule nor given to
\* apply_to_oov_word.
C11_HeteronymKeptAsGraphemes ==
    (last.op = "parse_one_word" /\ IsHeteronym(g, Cased(g, last.word))) =>
        /\ last.res = [pron |-> Graphemes(g, Cased(g, last.word)),
                       status |-> TRUE]
        /\ last.res.pron # OovFn(Cased(g, last.word))

\* parse_one_word of the heteronym "ts", whose stem "t" has one
\* pronunciation in phoneme_dict, with apply_to_oov_word given and a draw
\* that does not keep the graphemes.
C11_Witness ==
    /\ last.op = "parse_one_word" /\ last.word = <<"t", "s">>
    /\ IsHeteronym(g, Cased(g, last.word))
    /\ g.apply_to_oov_word = "fn"
    /\ ~KeepAsGraphemes(g.phoneme_probability, last.r)
    /\ \E w \in DOMAIN g.phoneme_dict :
          Lower(w) = <<"t">> /\ Len(g.phoneme_dict[w]) = 1
    /\ last.res.status

\* The stem of the word before a suffix of n characters is in phoneme_dict,
\* its entry holds a pronunciation and the ambiguity setting lets
\* parse_one_word use it.
C13_StemUsable(obj, word, n) ==
    /\ Len(word) > n
    /\ DropLast(word, n) \in DOMAIN obj.phoneme_dict
    /\ obj.phoneme_dict[DropLast(word, n)] # <<>>
    /\ (~obj.ignore_ambiguous_words
          \/ Len(obj.phoneme_dict[DropLast(word, n)]) = 1)

\* The stem of the word before a suffix of n characters is in phoneme_dict
\* with an entry that holds no pronunciation.
C13_StemEmpty(obj, word, n) ==
    /\ Len(word) > n
    /\ DropLast(word, n) \in DOMAIN obj.phoneme_dict
    /\ obj.phoneme_dict[DropLast(word, n)] = <<>>

\* The result C13 states for a word with a suffix of n characters: the
\* first pronunciation of the stem and the phonemes of the suffix.
C13_Result(obj, word, n) ==
    LET stem == DropLast(word, n)
        final == stem[Len(stem)]
    IN [pron |-> obj.phoneme_dict[stem][1]
                    \o (IF final \in {"t", "T"} THEN <<"s">>
                        ELSE IF n = 2 /\ final \in {"s", "S"}
                        THEN <<"<U+026A>", "z">>
                        ELSE <<"z">>),
        status |-> TRUE]

\* parse_one_word reached the suffix rules: the draw did not keep the
\* graphemes and the word is not a heteronym.
C13_ReachesRules ==
    /\ last.op = "parse_one_word" /\ g.cls = "IPAG2P"
    /\ ~KeepAsGraphemes(g.phoneme_probability, last.r)
    /\ ~IsHeteronym(g, Cased(g, last.word))

\* What parse_one_word returns for a word no rule handles.
C13_Unhandled(obj, word) ==
    IF obj.apply_to_oov_word = "None"
    THEN [pron |-> Graphemes(obj, word), status |-> FALSE]
    ELSE [pron |-> OovFn(word), status |-> TRUE]

\* What C13 says of a word that is absent from phoneme_dict; absent is the
\* condition under which the word counts as absent.
C13_Rules(absent) ==
    LET word == Cased(g, last.word)
        apos == EndsWith(word, <<"'", "s">>) \/ EndsWith(word, <<"'", "S">>)
        ends == EndsWith(word, <<"s">>) \/ EndsWith(word, <<"S">>)
    IN (C13_ReachesRules /\ absent) =>
          /\ (g.locale = "en-US" /\ apos /\ C13_StemUsable(g, word, 2)) =>
                 last.res = C13_Result(g, word, 2)
          /\ (g.locale = "en-US" /\ ends /\ ~apos
                 /\ C13_StemUsable(g, word, 1)) =>
                 last.res = C13_Result(g, word, 1)
          /\ (g.locale # "en-US" /\ ends
                 /\ Upper(word) \notin DOMAIN g.phoneme_dict) =>
                 last.res = C13_Unhandled(g, word)

\* A word that ends in s or S and is absent from phoneme_dict while its
\* upper-case form is present, with grapheme_case mixed: no suffix rule
\* applies, whatever the locale and the stem; the result is the first
\* pronunciation of the entry of the upper-case form if the ambiguity
\* setting lets parse_one_word use it, and otherwise what an unhandled word
\* gives, for the upper-cased word.
C13_UpperPresent ==
    LET word == Cased(g, last.word)
        d == g.phoneme_dict
    IN (/\ C13_ReachesRules
        /\ EndsWith(word, <<"s">>) \/ EndsWith(word, <<"S">>)
        /\ g.grapheme_case = GRAPHEME_CASE_MIXED
        /\ word \notin DOMAIN d /\ Upper(word) \in DOMAIN d) =>
           last.res = (IF d[Upper(word)] = <<>>
                          /\ ~g.ignore_ambiguous_words
                       THEN IndexError
                       ELSE IF ~g.ignore_ambiguous_words
                               \/ Len(d[Upper(word)]) = 1
                       THEN [pron |-> d[Upper(word)][1], status |-> TRUE]
                       ELSE C13_Unhandled(g, Upper(word)))

\* A word absent from phoneme_dict in its own form and in its upper-case
\* form, whose stem has an entry that holds no pronunciation: with locale
\* en-US and ignore_ambiguous_words=False the suffix rule raises IndexError.
C13_EmptyStemRaises ==
    LET word == Cased(g, last.word)
        apos == EndsWith(word, <<"'", "s">>) \/ EndsWith(word, <<"'", "S">>)
        ends == EndsWith(word, <<"s">>) \/ EndsWith(word, <<"S">>)
    IN (/\ C13_ReachesRules
        /\ g.locale = "en-US" /\ ~g.ignore_ambiguous_words
        /\ word \notin DOMAIN g.phoneme_dict
        /\ Upper(word) \notin DOMAIN g.phoneme_dict
        /\ \/ apos /\ C13_StemEmpty(g, word, 2)
           \/ ends /\ ~apos /\ C13_StemEmpty(g, word, 1)) =>
           last.res = IndexError

RECURSIVE C12_Expected(_, _)
C12_Expected(obj, text) ==
    IF text = <<>> THEN <<>>
    ELSE (IF Head(text) \in Hanzi
          THEN LET pinyin == LazyPinyinOne(Head(text))
               IN obj.phoneme_dict[DropLast(pinyin, 1)]
                     \o <<Tones[pinyin[Len(pinyin)]]>>
          ELSE <<Head(text)>>)
             \o C12_Expected(obj, Tail(text))

\* The pinyin of every Chinese character of the text is in phoneme_dict.
C12_PinyinKnown(obj, text) ==
    \A i \in 1..Len(text) :
        text[i] \in Hanzi =>
            DropLast(LazyPinyinOne(text[i]), 1) \in DOMAIN obj.phoneme_dict

\* C12: ChineseG2p.__call__ on a text whose Chinese characters are in the
\* dictionary raises no AssertionError, and every symbol that is not pinyin
\* (letter, punctuation, space, digit) is a token of its own, unchanged, at
\* its position in the output.
C12_NonPinyinUsedDirectly ==
    (last.op = "__call__" /\ g.cls = "ChineseG2p"
       /\ C12_PinyinKnown(g, last.text)) =>
        /\ ~last.res.raised
        /\ last.res.out = C12_Expected(g, last.text)

====
